---- MODULE Spec2Model ----
(***************************************************************************)
(* Session management and request dispatch of the greet MCP server         *)
(* (src/unnamed/part_000, class MCPServer; src/unnamed/part_001, the       *)
(* express routes and the SIGINT handler).                                 *)
(*                                                                         *)
(* The server keeps one table, `transports`, from session identifier to    *)
(* StreamableHTTPServerTransport, one shared protocol Server to which      *)
(* every new transport is connected, a timer that re-registers the tool    *)
(* list handler and broadcasts a list_changed notification, and the name   *)
(* of the single-greet tool, which the tool list handler rewrites.         *)
(*                                                                         *)
(* Node runs every callback to its next await, so one action is one run    *)
(* of a handler between two suspension points.                             *)
(***************************************************************************)
EXTENDS Integers, Sequences, FiniteSets, TLC

\* ------------------------------------------------------------------ bounds
MaxSessions == 2      \* transports ever created (initialize requests served)
MaxNames == 2         \* fresh single-greet names ever minted
MaxCalls == 1         \* multi-greet calls each session starts
MaxReqId == 1         \* JSON-RPC request ids a client draws from

\* --------------------------------------------------------------- JS values
\* `this.transports[key]` on a plain object literal: an own property, else a
\* property inherited from Object.prototype, else undefined.
Undefined == 0
Inherited == -1
Transports == 1..MaxSessions

\* randomUUID(): the n-th identifier drawn.
UuidPool == <<"uuid-1", "uuid-2", "uuid-3", "uuid-4">>
sessionId(t) == UuidPool[t]

\* Names every object literal inherits (Object.prototype).
ObjectPrototypeKeys == {"constructor"}

\* The mcp-session-id header of a request: absent, a session identifier the
\* server issued, one it never issued, or a name of Object.prototype.
Absent == ""
SessionHeaders == {Absent} \cup ObjectPrototypeKeys
                     \cup {sessionId(t) : t \in Transports}

Lookup(tbl, key) ==
    IF key \in DOMAIN tbl THEN tbl[key]
    ELSE IF key \in ObjectPrototypeKeys THEN Inherited
    ELSE Undefined

Truthy(v) == v # Undefined
IsTransport(v) == v \in Transports

\* delete tbl[key]
Delete(tbl, key) == [k \in DOMAIN tbl \ {key} |-> tbl[k]]
\* tbl[key] = v
Put(tbl, key, v) == [k \in DOMAIN tbl \cup {key} |-> IF k = key THEN v ELSE tbl[k]]

\* --------------------------------------------------------------- tool names
NamePool == <<"single-greet", "single-greeting-1", "single-greeting-2",
              "single-greeting-3", "single-greeting-4">>
multiGreetToolName == "multi-great"
NameIndex(n) == CHOOSE i \in 1..Len(NamePool) : NamePool[i] = n
\* `single-greeting-${randomUUID()}`: a name never used before.
FreshName(cur) == NamePool[NameIndex(cur) + 1]

\* JSON-RPC request ids are chosen by each client; two clients count alike.
ReqIds == 1..MaxReqId
None == Undefined

Methods == {"initialize", "tools/list", "tools/call", "notifications/initialized"}
\* request.params.name of a tools/call: absent, or a name a client has seen.
ToolNames == {Absent, multiGreetToolName, NamePool[1], NamePool[2]}
\* request.params.arguments: undefined, or an object, given by its `name`
\* (empty when the object has none).
Arguments == {"undefined", "", "arjun"}
Bodies == [method : Methods \ {"tools/call"}, id : ReqIds,
           tool : {Absent}, args : {"undefined"}]
          \cup [method : {"tools/call"}, id : ReqIds,
                tool : ToolNames, args : Arguments]

\* ------------------------------------------------------------------- state
VARIABLES
    transports,            \* MCPServer.transports: session id -> transport
    tstate,                \* each transport object: "new" (not constructed),
                           \* "open", "errored" (broken, no close signal), "closed"
    sse,                   \* transports with a standalone GET stream open
    pending,               \* per transport: request ids with an open response stream
    serverTransport,       \* Server._transport: what server.connect set last
    singleGreetToolName,   \* MCPServer.singleGreetToolName
    toolInterval,          \* the setInterval timer is armed
    call,                  \* per session: its multi-greet call in flight
    sends,                 \* per session: the messages its multi-greet calls
                           \* sent so far, each with the transport whose client
                           \* observed it (None: nobody did)
    last,                  \* the last request and its answer, or the last
                           \* firing of the timer and its deliveries
    proc                   \* the node process: "running", "crashed", "exited"

vars == <<transports, tstate, sse, pending, serverTransport,
          singleGreetToolName, toolInterval, call, sends, last, proc>>

Alive == proc = "running"

Idle == [pc |-> "idle", id |-> None, captured |-> None]

Nobody == [t \in Transports |-> 0]
NoRequest == [verb |-> "none", hdr |-> Absent, status |-> 0, handed |-> None,
              result |-> "", tools |-> <<>>, sent |-> Nobody, recv |-> Nobody]

Init ==
    /\ transports = [k \in {} |-> None]
    /\ tstate = [t \in Transports |-> "new"]
    /\ sse = {}
    /\ pending = [t \in Transports |-> {}]
    /\ serverTransport = None
    /\ singleGreetToolName = NamePool[1]
    /\ toolInterval = TRUE
    /\ call = [t \in Transports |-> Idle]
    /\ sends = [t \in Transports |-> <<>>]
    /\ last = NoRequest
    /\ proc = "running"

\* ------------------------------------------------- the transport and the SDK
\* A close hook that removes nothing.
oncloseKeeps(tbl, t) == tbl

\* A close hook that empties the table.
oncloseAll(tbl, t) == [k \in {} |-> None]

\* A close hook that empties the table when its own session is gone.
oncloseAgain(tbl, t) ==
    IF sessionId(t) \in DOMAIN tbl THEN Delete(tbl, sessionId(t))
    ELSE [k \in {} |-> None]

\* The close hook set on each new transport: it removes the transport's own
\* session, if the table still holds it.
onclose(tbl, t) ==
    IF Truthy(Lookup(tbl, sessionId(t))) THEN Delete(tbl, sessionId(t)) ELSE tbl

\* onsessioninitialized: this.transports[sessionId] = transport
onsessioninitialized(tbl, t) == Put(tbl, sessionId(t), t)

\* transport.close(): its streams end, then its close hooks run: the hook of
\* MCPServer and the one server.connect chained behind it, which disconnects
\* the Server from whatever transport it was talking through.
Close(t, tbl) ==
    /\ tstate' = [tstate EXCEPT ![t] = "closed"]
    /\ sse' = sse \ {t}
    /\ pending' = [pending EXCEPT ![t] = {}]
    /\ transports' = onclose(tbl, t)
    /\ serverTransport' = None

\* A message that relates to request `r` sent through transport `c`, where
\* `p` holds the open response streams: it is written on the stream of `r`,
\* and the send throws when there is no transport or no such stream.
DeliversOn(p, c, r) == c # None /\ tstate[c] = "open" /\ r \in p[c]

Open(p, t, r) == [p EXCEPT ![t] = @ \cup {r}]
Done(p, t, r) == [p EXCEPT ![t] = @ \ {r}]

Answer(verb, hdr, status, handed) ==
    last' = [verb |-> verb, hdr |-> hdr, status |-> status, handed |-> handed,
             result |-> "", tools |-> <<>>, sent |-> Nobody, recv |-> Nobody]

\* A rejection nobody handles: node (18 and later, which the SDK needs) ends
\* the process.
Unhandled == proc' = "crashed"

\* ---------------------------------------------------------------- requests
\* createErrorResponse(...) sent with status 400 or 500, nothing else touched.
createErrorResponse(verb, hdr, status) ==
    /\ Answer(verb, hdr, status, None)
    /\ UNCHANGED <<transports, tstate, sse, pending, serverTransport,
                   singleGreetToolName, toolInterval, call, sends, proc>>

\* GET: the standalone stream of a session.
handleGetRequest(hdr) ==
    /\ Alive
    /\ LET transport == Lookup(transports, hdr) IN
       IF hdr = Absent \/ ~Truthy(transport)
       THEN createErrorResponse("GET", hdr, 400)
       ELSE IF ~IsTransport(transport) \/ tstate[transport] = "errored"
       THEN \* transport.handleRequest throws outside any try: the route's
            \* promise rejects, which express 5 answers with 500 and which
            \* nobody handles under express 4
            /\ \/ Answer("GET", hdr, 500, None) /\ UNCHANGED proc
               \/ Answer("GET", hdr, 0, None) /\ Unhandled
            /\ UNCHANGED <<transports, tstate, sse, pending,
                           serverTransport, singleGreetToolName, toolInterval,
                           call, sends>>
       ELSE /\ sse' = sse \cup {transport}
            /\ Answer("GET", hdr, 200, transport)
            /\ UNCHANGED <<transports, tstate, pending,
                           serverTransport, singleGreetToolName, toolInterval,
                           call, sends, proc>>

\* DELETE: the transport closes itself, which runs the close hooks.
handleDeleteRequest(hdr) ==
    /\ Alive
    /\ LET transport == Lookup(transports, hdr) IN
       IF hdr = Absent \/ ~Truthy(transport)
       THEN createErrorResponse("DELETE", hdr, 400)
       ELSE IF ~IsTransport(transport)
       THEN createErrorResponse("DELETE", hdr, 500)
       ELSE \/ /\ Close(transport, transports)
               /\ Answer("DELETE", hdr, 200, transport)
               /\ UNCHANGED <<singleGreetToolName, toolInterval, call, sends, proc>>
            \/ /\ tstate[transport] = "errored"
               /\ Answer("DELETE", hdr, 500, transport)
               /\ UNCHANGED <<transports, tstate, sse, pending,
                              serverTransport, singleGreetToolName,
                              toolInterval, call, sends, proc>>

\* The final answer of a request that ran in one go, a result or an error
\* and, for a tool list, the names listed: it leaves through the transport
\* the Server is connected to, on the stream of request `r` there, and the
\* caller receives it when that is the stream of its own request.
Reply(a, hdr, r, result, tools) ==
    LET p1 == Open(pending, a, r)
        c == serverTransport
    IN  /\ pending' = IF DeliversOn(p1, c, r) THEN Done(p1, c, r) ELSE p1
        /\ last' = [verb |-> "POST", hdr |-> hdr, status |-> 200, handed |-> a,
                    result |-> IF DeliversOn(p1, c, r) /\ c = a THEN result ELSE "",
                    tools |-> IF DeliversOn(p1, c, r) /\ c = a THEN tools ELSE <<>>,
                    sent |-> Nobody, recv |-> Nobody]

\* A tool list that names the tools of the first registration.
ListedFirst(name) == <<NamePool[1], multiGreetToolName>>

\* The tools the tools/list handler returns once the name is set.
ListedTools(name) == <<name, multiGreetToolName>>

\* The tools/list handler: it renames the single-greet tool, then lists.
ListTools(name) == FreshName(name)

\* The text of the single greeting.
Greeting(n) == "Hey " \o n \o "! Welcome to itsuki's world!"

\* The tools/call handler up to its first send: the error it throws, the
\* text it returns, or "multi" when the multi-greet tool runs.
CallTool(name, tool, args) ==
    IF args = "undefined" THEN "arguments undefined"
    ELSE IF tool = Absent THEN "tool name undefined"
    ELSE IF tool = name
         THEN IF args = "" THEN "Name to greet undefined." ELSE Greeting(args)
    ELSE IF tool = multiGreetToolName THEN "multi"
    ELSE "Tool not found"

\* The call of session `a` sent `kind`, which the client of `c` observed.
Event(kind, c) == [kind |-> kind, on |-> c]
Observe(o, a, kind, c) == [o EXCEPT ![a] = Append(@, Event(kind, c))]
Started(a) == Cardinality({i \in 1..Len(sends[a]) : sends[a][i].kind = "N1"})

\* transport.handleRequest(req, res, req.body) of a live session `a`.
TransportPost(a, hdr, body) ==
    LET r == body.id IN
    \/ /\ body.method = "initialize"       \* the transport refuses a second one
       /\ Answer("POST", hdr, 400, a)
       /\ UNCHANGED <<pending, singleGreetToolName, call, sends>>
    \/ /\ body.method = "notifications/initialized"
       /\ Answer("POST", hdr, 202, a)
       /\ UNCHANGED <<pending, singleGreetToolName, call, sends>>
    \/ /\ body.method = "tools/list"
       /\ r \notin pending[a]
       /\ NameIndex(singleGreetToolName) <= MaxNames
       /\ singleGreetToolName' = ListTools(singleGreetToolName)
       /\ Reply(a, hdr, r, "", ListedTools(ListTools(singleGreetToolName)))
       /\ UNCHANGED <<call, sends>>
    \/ /\ body.method = "tools/call"
       /\ r \notin pending[a]
       /\ LET out == CallTool(singleGreetToolName, body.tool, body.args) IN
          IF out # "multi"
          THEN /\ Reply(a, hdr, r, out, <<>>)
               /\ UNCHANGED <<singleGreetToolName, call, sends>>
          ELSE /\ call[a].pc = "idle"
               /\ Started(a) < MaxCalls
               /\ pending' = Open(pending, a, r)
               /\ Answer("POST", hdr, 200, a)
               /\ LET c == serverTransport IN
                  IF DeliversOn(Open(pending, a, r), c, r)
                  THEN /\ sends' = Observe(sends, a, "N1", c)
                       /\ call' = [call EXCEPT ![a] =
                                     [pc |-> "sleep1", id |-> r, captured |-> c]]
                  ELSE \* the send throws; the error answer finds no stream either
                       /\ sends' = Observe(sends, a, "N1", None)
                       /\ UNCHANGED call
               /\ UNCHANGED singleGreetToolName

\* Every message is taken for an initialization.
isAnyRequest(body) == TRUE

\* isInitializeRequest(req.body)
isInitializeRequest(body) == body.method = "initialize"

\* POST: a message of a live session, an initialization, or neither.
handlePostRequest(hdr, body) ==
    /\ Alive
    /\ LET transport == Lookup(transports, hdr) IN
       IF hdr # Absent /\ Truthy(transport)
       THEN IF ~IsTransport(transport) \/ tstate[transport] = "errored"
            THEN createErrorResponse("POST", hdr, 500)
            ELSE /\ TransportPost(transport, hdr, body)
                 /\ UNCHANGED <<transports, tstate, sse,
                                serverTransport, toolInterval, proc>>
       ELSE IF hdr = Absent /\ isInitializeRequest(body)
       THEN \E t \in Transports :
              /\ tstate[t] = "new"
              /\ \A u \in Transports : u < t => tstate[u] # "new"
              /\ tstate' = [tstate EXCEPT ![t] = "open"]
              /\ serverTransport' = t
              /\ transports' = onsessioninitialized(transports, t)
              /\ Answer("POST", hdr, 200, t)
              /\ UNCHANGED <<sse, pending, singleGreetToolName,
                             toolInterval, call, sends, proc>>
       ELSE createErrorResponse("POST", hdr, 400)

\* The multi-greet call of session `a` after its first sleep: the second
\* notification, through whatever transport the Server talks through now.
\* When the send throws the handler fails and an error answer is sent.
multiGreetSecond(a) ==
    /\ Alive
    /\ call[a].pc = "sleep1"
    /\ LET r == call[a].id
           c == serverTransport
       IN  IF DeliversOn(pending, c, r)
           THEN /\ sends' = Observe(sends, a, "N2", c)
                /\ call' = [call EXCEPT ![a].pc = "sleep2"]
                /\ UNCHANGED pending
           ELSE \E via \in {call[a].captured, serverTransport} :
                  /\ call' = [call EXCEPT ![a] = Idle]
                  /\ IF DeliversOn(pending, via, r)
                     THEN /\ sends' = Observe(sends, a, "E", via)
                          /\ pending' = Done(pending, via, r)
                     ELSE /\ sends' = Observe(sends, a, "E", None)
                          /\ UNCHANGED pending
    /\ UNCHANGED <<transports, tstate, sse, serverTransport,
                   singleGreetToolName, toolInterval, last, proc>>

\* ... and after its second sleep: the result, through the transport captured
\* when the request came in or through the current one (the SDK's versions
\* differ).
multiGreetReturn(a) ==
    /\ Alive
    /\ call[a].pc = "sleep2"
    /\ \E via \in {call[a].captured, serverTransport} :
         /\ call' = [call EXCEPT ![a] = Idle]
         /\ IF DeliversOn(pending, via, call[a].id)
            THEN /\ sends' = Observe(sends, a, "R", via)
                 /\ pending' = Done(pending, via, call[a].id)
            ELSE /\ sends' = Observe(sends, a, "R", None)
                 /\ UNCHANGED pending
    /\ UNCHANGED <<transports, tstate, sse, serverTransport,
                   singleGreetToolName, toolInterval, last, proc>>

\* ------------------------------------------------------------------- timer
\* Object.values(this.transports)
Values(tbl) == {tbl[k] : k \in DOMAIN tbl}

\* transport.send(notification) with no related request: written on the
\* standalone stream when there is one, dropped when there is none; a broken
\* transport drops it or rejects.
send(t) ==
    IF tstate[t] = "open"
    THEN IF t \in sse THEN {"delivered"} ELSE {"dropped"}
    ELSE {"dropped", "failed"}

\* A broadcast to every transport ever made, in the table or not.
TargetsEver(tbl) == Transports

\* The targets of one firing: forEach over the values of the table.
Targets(tbl) == Values(tbl)

\* The setInterval callback: setToolSchema() registers the same handler again,
\* then every transport of the table is sent list_changed; the promises of
\* sendNotification are dropped, so a rejected send is handled by nobody.
toolIntervalFires ==
    /\ Alive
    /\ toolInterval
    /\ \E out \in [Targets(transports) -> {"delivered", "dropped", "failed"}] :
         /\ \A t \in Targets(transports) : out[t] \in send(t)
         /\ last' = [verb |-> "TIMER", hdr |-> Absent, status |-> 0,
                     handed |-> None, result |-> "", tools |-> <<>>,
                     sent |-> [t \in Transports |->
                                IF t \in Targets(transports) THEN 1 ELSE 0],
                     recv |-> [t \in Transports |->
                                IF t \in Targets(transports) /\ out[t] = "delivered"
                                THEN 1 ELSE 0]]
         /\ IF \E t \in Targets(transports) : out[t] = "failed"
            THEN Unhandled
            ELSE UNCHANGED proc
    /\ UNCHANGED <<transports, tstate, sse, pending, serverTransport,
                   singleGreetToolName, toolInterval, call, sends>>

\* ------------------------------------------------------------- environment
\* A transport breaks for good and signals no close: the server set no error
\* hook on it, so nothing of the server changes.
TransportError(t) ==
    /\ Alive
    /\ tstate[t] = "open"
    /\ tstate' = [tstate EXCEPT ![t] = "errored"]
    /\ UNCHANGED <<transports, sse, pending, serverTransport,
                   singleGreetToolName, toolInterval, call, sends, last, proc>>

\* A transport closes on its own account: its close hooks run.
TransportClose(t) ==
    /\ Alive
    /\ tstate[t] \in {"open", "errored"}
    /\ Close(t, transports)
    /\ UNCHANGED <<singleGreetToolName, toolInterval, call, sends, last, proc>>

\* ----------------------------------------------------------------- cleanup
RECURSIVE KeysFrom(_, _)
\* The keys of the table in insertion order (sessions are inserted in the
\* order their identifiers are drawn).
KeysFrom(tbl, t) ==
    IF t > MaxSessions THEN <<>>
    ELSE IF sessionId(t) \in DOMAIN tbl
         THEN <<sessionId(t)>> \o KeysFrom(tbl, t + 1)
         ELSE KeysFrom(tbl, t + 1)

RECURSIVE CloseAll(_, _, _)
\* cleanup's loop over the keys for-in has left, where close() of the
\* transports in `throwing` rejects: a key deleted meanwhile is skipped; a
\* transport that closes runs its close hook and then its key is deleted; a
\* close that throws is caught and its key stays. The result is the table
\* and the set of transports closed.
CloseAll(keys, throwing, acc) ==
    IF keys = <<>> THEN acc
    ELSE IF Head(keys) \notin DOMAIN acc.tbl
         THEN CloseAll(Tail(keys), throwing, acc)
    ELSE IF acc.tbl[Head(keys)] \in throwing
         THEN CloseAll(Tail(keys), throwing, acc)
    ELSE CloseAll(Tail(keys), throwing,
                  [tbl |-> Delete(onclose(acc.tbl, acc.tbl[Head(keys)]), Head(keys)),
                   closed |-> acc.closed \cup {acc.tbl[Head(keys)]}])

\* SIGINT: cleanup() stops the timer, closes every session, closes the
\* Server (which closes the transport it still talks through, if any) and
\* the process exits. close() resolves without waiting for I/O, so no
\* request and no timer runs in between. A close() of the Server that
\* rejects is handled by nobody and process.exit is not reached.
cleanup ==
    /\ Alive
    /\ toolInterval' = FALSE
    /\ \E throwing \in SUBSET {t \in Transports : tstate[t] = "errored"} :
         LET loop == CloseAll(KeysFrom(transports, 1), throwing,
                              [tbl |-> transports, closed |-> {}])
             st == IF loop.closed = {} THEN serverTransport ELSE None
             closed == IF st # None /\ st \notin throwing
                       THEN loop.closed \cup {st} ELSE loop.closed
         IN  /\ transports' = IF st # None /\ st \notin throwing
                              THEN onclose(loop.tbl, st) ELSE loop.tbl
             /\ tstate' = [t \in Transports |->
                             IF t \in closed THEN "closed" ELSE tstate[t]]
             /\ sse' = sse \ closed
             /\ pending' = [t \in Transports |->
                              IF t \in closed THEN {} ELSE pending[t]]
             /\ serverTransport' = IF closed = {} THEN serverTransport ELSE None
             /\ IF st # None /\ st \in throwing
                THEN Unhandled
                ELSE proc' = "exited"
    /\ UNCHANGED <<singleGreetToolName, call, sends, last>>

\* -------------------------------------------------------------------- next
Next ==
    \/ \E hdr \in SessionHeaders, body \in Bodies : handlePostRequest(hdr, body)
    \/ \E hdr \in SessionHeaders : handleGetRequest(hdr)
    \/ \E hdr \in SessionHeaders : handleDeleteRequest(hdr)
    \/ \E a \in Transports : multiGreetSecond(a)
    \/ \E a \in Transports : multiGreetReturn(a)
    \/ toolIntervalFires
    \/ \E t \in Transports : TransportError(t)
    \/ \E t \in Transports : TransportClose(t)
    \/ cleanup

Spec == Init /\ [][Next]_vars

\* ================================================================== claims
Issued == {sessionId(t) : t \in Transports}
Post(hdr) == \E body \in Bodies : handlePostRequest(hdr, body)
Request(hdr) == Post(hdr) \/ handleGetRequest(hdr) \/ handleDeleteRequest(hdr)

\* C1: a POST, GET or DELETE that carries a session identifier which is not
\* a key of the table is answered 400, is handed to no transport and leaves
\* the table as it was (for POST whatever the body, an initialization too).
C1_UnknownSessionRejected ==
    [][\A hdr \in SessionHeaders \ {Absent} :
         (hdr \notin DOMAIN transports /\ Request(hdr))
            => /\ last'.status = 400
               /\ last'.handed = None
               /\ transports' = transports
               /\ proc' = proc]_vars

\* C1, for the identifiers that are no name of Object.prototype: the same
\* statement holds.
C1_UnknownUuidRejected ==
    [][\A hdr \in Issued :
         (hdr \notin DOMAIN transports /\ Request(hdr))
            => /\ last'.status = 400
               /\ last'.handed = None
               /\ transports' = transports
               /\ proc' = proc]_vars

\* C2 (as amended): the first DELETE of a live session is answered 200 and its
\* close hook removes the session; a DELETE that follows it with the same
\* identifier is answered 400, changes nothing, and the session stays absent.
C2_SecondTerminateRejected ==
    [][\A t \in Transports :
         (last'.verb = "DELETE" /\ handleDeleteRequest(sessionId(t))) =>
            /\ (sessionId(t) \in DOMAIN transports /\ tstate[t] = "open")
                  => /\ last'.status = 200
                     /\ tstate'[t] = "closed"
                     /\ sessionId(t) \notin DOMAIN transports'
            /\ (last = [NoRequest EXCEPT !.verb = "DELETE", !.hdr = sessionId(t),
                                         !.status = 200, !.handed = t])
                  => /\ last'.status = 400
                     /\ transports' = transports
                     /\ sessionId(t) \notin DOMAIN transports']_vars

\* C2 as claimed: the second DELETE is no error.
C2_SecondTerminateSucceeds ==
    [][\A t \in Transports :
         (/\ last = [NoRequest EXCEPT !.verb = "DELETE", !.hdr = sessionId(t),
                                      !.status = 200, !.handed = t]
          /\ last'.verb = "DELETE"
          /\ handleDeleteRequest(sessionId(t)))
            => /\ last'.status = 200
               /\ sessionId(t) \notin DOMAIN transports']_vars

\* A session was terminated and a second DELETE of it was answered 400.
C2_Witness ==
    \E t \in Transports :
        /\ tstate[t] = "closed"
        /\ last.verb = "DELETE" /\ last.hdr = sessionId(t) /\ last.status = 400

\* C3: no session whose transport is closed or has failed for good is a key
\* of the table.
C3_ClosedNotInTable ==
    \A t \in Transports :
        tstate[t] \in {"closed", "errored"} => sessionId(t) \notin DOMAIN transports

\* C4: when the transport of a registered session signals an unrecoverable
\* error, its error hook removes the session, as the close hook does on a
\* close signal.
C4_ErrorHookRemoves ==
    [][\A t \in Transports :
         TransportError(t) => sessionId(t) \notin DOMAIN transports']_vars

\* The kinds of the messages a session's calls sent that its own client saw.
RECURSIVE Own(_, _)
Own(a, evs) ==
    IF evs = <<>> THEN <<>>
    ELSE IF Head(evs).on = a THEN <<Head(evs).kind>> \o Own(a, Tail(evs))
    ELSE Own(a, Tail(evs))

RECURSIVE Triples(_)
Triples(n) == IF n = 0 THEN <<>> ELSE <<"N1", "N2", "R">> \o Triples(n - 1)

\* C5: a session whose multi-greet calls have returned, and whose transport
\* is open, has observed N1, N2, R for each of them, in that order.
C5_OrderedTriple ==
    \A a \in Transports :
        (tstate[a] = "open" /\ call[a].pc = "idle")
            => Own(a, sends[a]) = Triples(Started(a))

\* C6: the interim notifications of a call of session A are never observed
\* by the client of another session.
C6_NoCrossTalk ==
    \A a \in Transports : \A i \in 1..Len(sends[a]) :
        sends[a][i].kind \in {"N1", "N2"} => sends[a][i].on \in {a, None}

\* C7: a step that closes session A leaves the entry of every other session
\* that is not closed in that step as it was.
C7_CloseLeavesOthers ==
    [][\A a \in Transports :
         (tstate[a] # "closed" /\ tstate'[a] = "closed")
            => /\ sessionId(a) \notin DOMAIN transports'
               /\ \A k \in DOMAIN transports :
                     (transports[k] # a /\ tstate'[transports[k]] # "closed")
                        => /\ k \in DOMAIN transports'
                           /\ transports'[k] = transports[k]]_vars

\* Session A was terminated by DELETE and session B is still in the table.
C7_Witness ==
    \E a, b \in Transports :
        /\ a # b
        /\ tstate[a] = "closed"
        /\ last.verb = "DELETE" /\ last.hdr = sessionId(a) /\ last.status = 200
        /\ sessionId(b) \in DOMAIN transports /\ transports[sessionId(b)] = b

\* C8 (as amended): a firing of the timer sends exactly one list_changed to
\* each transport of the table and none to any other; the client receives it,
\* once, when the session's standalone stream is open and its transport is
\* not broken, and never more than once.
C8_OneSendPerSession ==
    [][(last'.verb = "TIMER" /\ toolIntervalFires) =>
         \A t \in Transports :
            /\ last'.sent[t] = IF t \in Values(transports) THEN 1 ELSE 0
            /\ last'.recv[t] <= last'.sent[t]
            /\ (t \in Values(transports) /\ tstate[t] = "open" /\ t \in sse)
                  => last'.recv[t] = 1]_vars

\* C8 as claimed: every session of the table receives exactly one.
C8_EveryoneReceivesOne ==
    [][(last'.verb = "TIMER" /\ toolIntervalFires) =>
         \A t \in Transports :
            last'.recv[t] = IF t \in Values(transports) THEN 1 ELSE 0]_vars

\* The timer fired with two sessions in the table, one with its stream open,
\* which received the notification, and one without.
C8_Witness ==
    /\ last.verb = "TIMER"
    /\ \E t, u \in Transports :
          /\ last.sent[t] = 1 /\ last.recv[t] = 1
          /\ last.sent[u] = 1 /\ last.recv[u] = 0

\* C9: a firing of the timer sends to every session of the table, delivers
\* to those that can receive, and no failed delivery ends the process.
C9_FailureIsolated ==
    [][(last'.verb = "TIMER" /\ toolIntervalFires) =>
         /\ \A t \in Values(transports) : last'.sent[t] = 1
         /\ \A t \in Values(transports) :
               (tstate[t] = "open" /\ t \in sse) => last'.recv[t] = 1
         /\ proc' = "running"]_vars

\* C10: a tools/list request leaves the name tool calls are resolved against
\* as it was.
C10_ListLeavesNames ==
    [][\A hdr \in SessionHeaders : \A body \in Bodies :
         (body.method = "tools/list" /\ handlePostRequest(hdr, body))
            => singleGreetToolName' = singleGreetToolName]_vars

\* Session `t` is in the table with a working transport.
Live(t) == sessionId(t) \in DOMAIN transports /\ tstate[t] = "open"

\* C11: an initialization without identifier is given a transport whose
\* identifier was never in the table and is a key of it afterwards; a later
\* tools/list POST that carries the identifier is handed to that transport and
\* its caller receives the tools that are current when it returns.
C11_InitThenList ==
    [][last'.verb = "POST" =>
        \A body \in Bodies :
          /\ (isInitializeRequest(body) /\ handlePostRequest(Absent, body))
                => \E t \in Transports :
                      /\ tstate[t] = "new"
                      /\ sessionId(t) \notin DOMAIN transports
                      /\ last'.handed = t
                      /\ sessionId(t) \in DOMAIN transports'
                      /\ transports'[sessionId(t)] = t
          /\ \A t \in Transports :
                (/\ body.method = "tools/list"
                 /\ Live(t)
                 /\ handlePostRequest(sessionId(t), body))
                   => /\ last'.handed = t
                      /\ last'.tools = ListedTools(singleGreetToolName')]_vars

\* The identifier resolves to something whose handleRequest throws.
Throws(verb, hdr) ==
    LET v == Lookup(transports, hdr) IN
    /\ Truthy(v)
    /\ \/ ~IsTransport(v)
       \/ verb \in {"GET", "POST"} /\ tstate[v] = "errored"

\* C12: a request whose handling throws is answered 500, the process goes on
\* and the table is as it was.
C12_FaultCaught ==
    [][\A hdr \in SessionHeaders \ {Absent} :
         (Throws(last'.verb, hdr) /\ Request(hdr))
            => /\ last'.status = 500
               /\ proc' = proc
               /\ transports' = transports]_vars

\* C13: what a multi-greet call sends after its session's transport closed is
\* observed by nobody, and the call ends.
C13_DeliveryFailsAfterClose ==
    [][\A a \in Transports :
         (/\ tstate[a] = "closed"
          /\ multiGreetSecond(a) \/ multiGreetReturn(a))
            => /\ call'[a].pc = "idle"
               /\ sends'[a][Len(sends'[a])].on = None]_vars

\* C14: a tool list a caller receives holds the two names that tool calls
\* are resolved against when it returns, each of which resolves, and a
\* firing of the timer changes no name, so that no list mixes two
\* registrations.
C14_ListIsSnapshot ==
    [][/\ (last'.verb = "POST" /\ last'.tools # <<>>) =>
            \A hdr \in SessionHeaders : \A body \in Bodies :
            (/\ body.method = "tools/list"
             /\ handlePostRequest(hdr, body))
               => /\ last'.tools = <<singleGreetToolName', multiGreetToolName>>
                  /\ \A i \in 1..Len(last'.tools) :
                        CallTool(singleGreetToolName', last'.tools[i], "arjun")
                           # "Tool not found"
       /\ (last'.verb = "TIMER" /\ toolIntervalFires)
             => singleGreetToolName' = singleGreetToolName]_vars

\* A caller received its second tool list, with the names now current.
C14_Witness ==
    /\ last.verb = "POST"
    /\ last.tools = <<singleGreetToolName, multiGreetToolName>>
    /\ singleGreetToolName = NamePool[3]

\* The errors of a call that names no arguments, no tool or no known tool.
ErrorResults == {"arguments undefined", "tool name undefined", "Tool not found"}

\* C15: a tools/call of a live session without arguments, without tool name
\* or with a name that matches no tool gives its caller that error, sends no
\* notification and changes neither the table nor the tool names.
C15_InvalidCallRejected ==
    [][last'.verb = "POST" =>
        \A t \in Transports : \A body \in Bodies :
          (/\ body.method = "tools/call"
           /\ CallTool(singleGreetToolName, body.tool, body.args) \in ErrorResults
           /\ Live(t)
           /\ handlePostRequest(sessionId(t), body))
             => /\ last'.result = CallTool(singleGreetToolName, body.tool, body.args)
                /\ sends' = sends
                /\ transports' = transports
                /\ singleGreetToolName' = singleGreetToolName]_vars

\* C16: a call of the single-greet tool with name n gives its caller the
\* text "Hey n! Welcome to itsuki's world!" and sends no notification.
C16_SingleGreeting ==
    [][last'.verb = "POST" =>
        \A t \in Transports : \A body \in Bodies :
          (/\ body.method = "tools/call"
           /\ body.tool = singleGreetToolName
           /\ body.args \notin {"undefined", ""}
           /\ Live(t)
           /\ handlePostRequest(sessionId(t), body))
             => /\ last'.result = "Hey " \o body.args \o "! Welcome to itsuki's world!"
                /\ sends' = sends]_vars

\* The step adds a key to the table or constructs a transport.
Adds ==
    \/ ~(DOMAIN transports' \subseteq DOMAIN transports)
    \/ \E t \in Transports : tstate[t] = "new" /\ tstate'[t] # "new"

\* C17: a step that adds a key to the table or constructs a transport is a
\* POST without identifier whose body is an initialization; no other POST,
\* no GET and no DELETE does.
C17_OnlyInitializeAdds ==
    [][Adds => /\ last'.verb = "POST"
               /\ last'.hdr = Absent
               /\ \A hdr \in SessionHeaders : \A body \in Bodies :
                     handlePostRequest(hdr, body)
                        => (hdr = Absent /\ body.method = "initialize")]_vars

\* Two sessions are in the table and a POST without identifier whose body was
\* no initialization has just been refused.
C17_Witness ==
    /\ last.verb = "POST" /\ last.hdr = Absent /\ last.status = 400
    /\ Cardinality(DOMAIN transports) = 2

\* C18: a session is removed at its first close signal; a close hook that
\* runs again for a closed session, and the delete that cleanup issues after
\* the hook, leave the table as it is; cleanup removes each session it closes
\* and no other.
C18_RemovedOnce ==
    /\ [](\A t \in Transports :
            tstate[t] = "closed"
               => /\ sessionId(t) \notin DOMAIN transports
                  /\ onclose(transports, t) = transports
                  /\ Delete(onclose(transports, t), sessionId(t)) = transports)
    /\ [][\A t \in Transports :
            (tstate[t] # "closed" /\ tstate'[t] = "closed")
               => /\ sessionId(t) \in DOMAIN transports
                  /\ sessionId(t) \notin DOMAIN transports'
                  /\ onclose(transports', t) = transports']_vars

\* cleanup ran over a table of one session already terminated by DELETE and
\* one still live, and the process exited with the table empty.
C18_Witness ==
    /\ proc = "exited"
    /\ \A t \in Transports : tstate[t] = "closed"
    /\ last.verb = "DELETE" /\ last.status = 200
    /\ DOMAIN transports = {}

\* C19: when session A has received a tool list and session B then sends a
\* tools/list request, a call with the single-greet name A was given still
\* resolves to the tool.
C19_ListedNameResolves ==
    [][last'.verb = "POST" =>
        \A a, b \in Transports : \A body \in Bodies :
          (/\ a # b
           /\ last.verb = "POST" /\ last.handed = a /\ last.tools # <<>>
           /\ body.method = "tools/list"
           /\ Live(b)
           /\ handlePostRequest(sessionId(b), body))
             => CallTool(singleGreetToolName', last.tools[1], "arjun")
                   = Greeting("arjun")]_vars

\* C20: once cleanup has returned and the process exited, the table is empty
\* and the timer is stopped.
C20_CleanupEmpties ==
    proc = "exited" => (DOMAIN transports = {} /\ ~toolInterval)

====
